---- MODULE Spec2Model ----
(***************************************************************************)
(* Lens indexing service: APIServer.Index (server) driving Service.Magnify *)
(* and Service.Store (lens.go) against the key-value search service.      *)
(* Every store round trip (Has / Get / Put) is one step of the calling     *)
(* request, so concurrent requests interleave between round trips.         *)
(* APIServer.Search and Service.SearchByKeyName answer in one step. The   *)
(* text analyzer the requests share is part of the state.                 *)
(***************************************************************************)
EXTENDS Integers, Sequences, FiniteSets, TLC

\* ------------------------------------------------------------------ bounds
\* Index requests issued in one behaviour, one request at a time
MaxCalls == 3
\* collaborator failures (store, fetch, extractor, ipfs) injected, one request
\* at a time
MaxFaults == 1
\* Index requests issued in one behaviour with concurrent requests
MaxConcCalls == 2
\* collaborator failures injected in one behaviour with concurrent requests
MaxConcFaults == 1
\* Index requests issued in one behaviour over the wider range of contents
MaxDispatchCalls == 2

\* ------------------------------------------------------------ input domains
Procs == {"p1", "p2"}
Names == {"n1", "n2", "n3", "n4"}
\* content hashes of a wider range of contents
DispatchNames == Names \cup {"n5", "n6", "n7", "n8"}
Keywords == {"a", "b", "c"}
ReqTypes == {"ipld", "file"}
\* keyword lists the text summarizer may return (before utils.Unique)
RawMetas == {<<"a", "b">>, <<"b", "c">>, <<"a", "a">>}

\* --------------------------------------------------------------- error texts
NoErr == ""
ErrInvalidType == "invalid data type"
ErrAlreadyIndexed == "this object has already been indexed"
ErrUnsupported == "unsupported content type for indexing"
ErrKeyname == "keyname does not exist"
ErrFindID == "failed to find ID for object"
ErrInvalidUUID == "invalid uuid found"
ErrNotFound == "object not found"
ErrStoreIO == "store i/o error"
ErrFetch == "fetch failed"
ErrExtract == "extraction failed"
ErrJSON == "json: cannot unmarshal"
ErrDagPut == "dag put failed"

\* ------------------------------------------------------------------- uuid
\* uuid.NewV4: 16 bytes (uuid.Size), version (0x40) and variant (0x80) bits
\* set; n stands for the random bits, a different n for every call
NewV4(n) == [j \in 1..16 |-> IF j = 7 THEN 64
                             ELSE IF j = 9 THEN 128
                             ELSE IF j = 16 THEN n ELSE 0]

Hex == <<"0", "1", "2", "3", "4", "5", "6", "7", "8", "9", "a", "b", "c", "d", "e", "f">>
HexByte(b) == Hex[(b \div 16) + 1] \o Hex[(b % 16) + 1]

\* uuid.UUID.String: the canonical 36 character form 8-4-4-4-12
String(u) ==
    HexByte(u[1]) \o HexByte(u[2]) \o HexByte(u[3]) \o HexByte(u[4]) \o "-" \o
    HexByte(u[5]) \o HexByte(u[6]) \o "-" \o
    HexByte(u[7]) \o HexByte(u[8]) \o "-" \o
    HexByte(u[9]) \o HexByte(u[10]) \o "-" \o
    HexByte(u[11]) \o HexByte(u[12]) \o HexByte(u[13]) \o HexByte(u[14]) \o
    HexByte(u[15]) \o HexByte(u[16])

\* the uuids a behaviour can generate
UUIDs == {NewV4(n) : n \in 1..(MaxCalls + MaxConcCalls)}

\* the canonical form of each of them
UUIDStrings == [u \in UUIDs |-> String(u)]

\* uuid.FromString (used by json.Unmarshal of a uuid field): the uuid whose
\* canonical form is s, or an error
FromString(s) ==
    IF \E u \in UUIDs : UUIDStrings[u] = s
    THEN [err |-> NoErr, id |-> CHOOSE u \in UUIDs : UUIDStrings[u] = s]
    ELSE [err |-> ErrInvalidUUID, id |-> <<>>]

\* ------------------------------------------------------------ stored values
\* a stored value is a byte slice: either plain text or a marshalled document
Text(s) == [json |-> FALSE, text |-> s]
Doc(d) == [json |-> TRUE, doc |-> d]

\* uuid.FromBytes: takes the slice as the 16 raw bytes of a uuid; any other
\* length is an error (a marshalled document is always longer than 16 bytes)
FromBytes(b) ==
    IF ~b.json /\ Len(b.text) = 16
    THEN [err |-> NoErr, id |-> b.text]
    ELSE [err |-> ErrInvalidUUID, id |-> <<>>]

\* ------------------------------------------------------------ content types
\* http.DetectContentType of the bytes behind each content hash, as the tokens
\* of the returned string; the content of a hash never changes
ContentType(name) ==
    CASE name = "n1" -> <<"text", "/", "plain", ";", " charset=utf-8">>
      [] name = "n2" -> <<"application", "/", "pdf">>
      [] name = "n3" -> <<"image", "/", "png">>
      [] name = "n5" -> <<"text", "/", "html", ";", " charset=utf-8">>
      [] name = "n6" -> <<"image", "/", "jpeg">>
      [] name = "n7" -> <<"application", "/", "zip">>
      [] name = "n8" -> <<"video", "/", "webm">>
      [] OTHER       -> <<"application", "/", "octet-stream">>

RECURSIVE Join(_)
Join(toks) == IF toks = <<>> THEN "" ELSE Head(toks) \o Join(Tail(toks))

\* strings.FieldsFunc(s, r == sep): the maximal runs of s free of sep, in order
RECURSIVE FieldsFunc(_, _)
FieldsFunc(toks, sep) ==
    IF toks = <<>> THEN <<>>
    ELSE IF Head(toks) = sep THEN FieldsFunc(Tail(toks), sep)
    ELSE LET n == IF \E j \in 1..Len(toks) : toks[j] = sep
                  THEN (CHOOSE j \in 1..Len(toks) :
                            toks[j] = sep /\ \A k \in 1..(j - 1) : toks[k] # sep) - 1
                  ELSE Len(toks)
         IN <<Join(SubSeq(toks, 1, n))>> \o FieldsFunc(SubSeq(toks, n + 1, Len(toks)), sep)

\* utils.Unique: duplicates removed, first occurrence kept, order preserved
RECURSIVE Unique(_)
Unique(s) ==
    IF s = <<>> THEN <<>>
    ELSE LET r == Unique(SubSeq(s, 1, Len(s) - 1))
             x == s[Len(s)]
         IN IF \E j \in 1..Len(r) : r[j] = x THEN r ELSE Append(r, x)

NoMeta == [Summary |-> <<>>, MimeType |-> "", Category |-> ""]

\* mutant: the dispatch looks at the part before the slash only
ClassifyByMajorType(ct, kws) ==
    LET parsed2 == FieldsFunc(ct, "/")
        category == IF parsed2[1] = "application" THEN "pdf"
                    ELSE IF parsed2[1] = "text" THEN "document"
                    ELSE IF parsed2[1] = "image" THEN "image"
                    ELSE ""
    IN IF category = ""
       THEN [err |-> ErrUnsupported, meta |-> NoMeta]
       ELSE [err |-> NoErr,
             meta |-> [Summary |-> Unique(kws), MimeType |-> Join(ct),
                       Category |-> category]]

\* mutant: the dispatch without its default branch
ClassifyNoDefault(ct, kws) ==
    LET parsed == FieldsFunc(ct, ";")
        parsed2 == FieldsFunc(ct, "/")
        category == IF parsed[1] = "application/pdf" THEN "pdf"
                    ELSE IF parsed2[1] = "text" THEN "document"
                    ELSE IF parsed2[1] = "image" THEN "image"
                    ELSE ""
    IN [err |-> NoErr,
        meta |-> [Summary |-> Unique(kws), MimeType |-> Join(ct), Category |-> category]]

\* Magnify's dispatch on the detected content type (lens.go 101-151). kws is
\* what the summarizer, or the image classifier, returns for this call.
\* The result is [err, meta].
Classify(ct, kws) ==
    LET contentType == Join(ct)
        parsed == FieldsFunc(ct, ";")
        parsed2 == FieldsFunc(ct, "/")
        category == IF parsed[1] = "application/pdf" THEN "pdf"
                    ELSE IF parsed2[1] = "text" THEN "document"
                    ELSE IF parsed2[1] = "image" THEN "image"
                    ELSE ""
    IN IF category = ""
       THEN [err |-> ErrUnsupported, meta |-> NoMeta]
       ELSE [err |-> NoErr,
             meta |-> [Summary |-> Unique(kws), MimeType |-> contentType,
                       Category |-> category]]

\* the keyword lists the extractor of a content type can hand to Classify:
\* the summarizer's list for text and pdf, one keyword for an image
MetaChoices(ct, metas) ==
    IF FieldsFunc(ct, "/")[1] = "image" THEN {<<k>> : k \in Keywords} ELSE metas

\* --------------------------------------------------------- search service
\* the key-value store behind search.Service: one keyspace for every record
Has(s, k) == k \in DOMAIN s
Get(s, k) == s[k]
Put(s, k, v) == [x \in DOMAIN s \cup {k} |-> IF x = k THEN v ELSE s[x]]

\* ------------------------------------------------------------ record codecs
\* json.Marshal of models.Keyword: uuids are written in their canonical form
MarshalKeyword(k) ==
    Doc([Name |-> k.Name,
         LensIdentifiers |->
             [j \in 1..Len(k.LensIdentifiers) |-> String(k.LensIdentifiers[j])]])

\* json.Unmarshal into models.Keyword; the result is [err, keyword]
UnmarshalKeyword(b) ==
    LET none == [Name |-> "", LensIdentifiers |-> <<>>]
    IN IF ~b.json THEN [err |-> ErrJSON, keyword |-> none]
       ELSE IF "LensIdentifiers" \notin DOMAIN b.doc
       THEN [err |-> NoErr, keyword |-> [Name |-> b.doc.Name, LensIdentifiers |-> <<>>]]
       ELSE LET ids == b.doc.LensIdentifiers
            IN IF \E j \in 1..Len(ids) : FromString(ids[j]).err # NoErr
               THEN [err |-> ErrJSON, keyword |-> none]
               ELSE [err |-> NoErr,
                     keyword |-> [Name |-> b.doc.Name,
                                  LensIdentifiers |->
                                      [j \in 1..Len(ids) |-> FromString(ids[j]).id]]]

\* json.Marshal of models.Object
MarshalObject(id, name, meta) ==
    Doc([LensID |-> String(id), Name |-> name, MetaData |-> meta])

\* the keyword object Store creates for a keyword that has no record
NewKeyObj(v, id) == [Name |-> v, LensIdentifiers |-> <<id>>]

\* Store's scan of a keyword's identifiers for the object's own id
Detected(ids, id) == \E j \in 1..Len(ids) : ids[j] = id

\* mutant: the id is appended twice
AppendIDTwice(ids, id) == Append(Append(ids, id), id)

\* mutant: the keyword's identifiers are replaced by the new id
AppendIDReplace(ids, id) == <<id>>

\* Store's update of a keyword's identifiers
AppendID(ids, id) == Append(ids, id)

\* what Store writes under the object's name
NameValue(id) == Text(String(id))

\* mutant: Index takes every type
TypeGuardNone(t) == NoErr

\* Index's switch on the type of the request
TypeGuard(t) == IF t = "ipld" THEN NoErr ELSE ErrInvalidType

\* mutant: Magnify without its guard
MagnifyGuardNone(has) == NoErr

\* Magnify's guard against indexing a content hash twice
MagnifyGuard(has) == IF has THEN ErrAlreadyIndexed ELSE NoErr

\* mutant: a reindex that does not ask for the name record
ReindexGuardNone(has) == NoErr

\* Magnify's guard for a reindex: the content hash must have a name record
ReindexGuard(has) == IF has THEN NoErr ELSE ErrNotFound

\* the summary of the object a name record points to, <<>> when there is none
PriorSummary(s, name) ==
    IF Has(s, name) /\ ~s[name].json /\ Has(s, s[name].text)
          /\ s[s[name].text].json /\ "MetaData" \in DOMAIN s[s[name].text].doc
    THEN s[s[name].text].doc.MetaData.Summary
    ELSE <<>>

\* ----------------------------------------------------------- text analyzer
\* text.Analyzer.Summarize: the text is added to the working corpus
Populate(texts, text) == Append(texts, text)

\* text.Analyzer.Clear: the working corpus is reset
Clear(texts) == <<>>

\* ------------------------------------------------------------------ search
\* json.Unmarshal into models.Object; the result is [err, object]
UnmarshalObject(b) ==
    IF b.json /\ "LensID" \in DOMAIN b.doc
    THEN [err |-> NoErr, object |-> b.doc]
    ELSE [err |-> ErrJSON, object |-> [LensID |-> "", Name |-> "", MetaData |-> NoMeta]]

\* the objects behind the identifiers ids, in order; an identifier without an
\* object record yields none
RECURSIVE ObjectsOf(_, _)
ObjectsOf(s, ids) ==
    IF ids = <<>> THEN <<>>
    ELSE LET k == String(Head(ids))
             rest == ObjectsOf(s, Tail(ids))
         IN IF Has(s, k) /\ UnmarshalObject(Get(s, k)).err = NoErr
            THEN <<UnmarshalObject(Get(s, k)).object>> \o rest
            ELSE rest

\* search.Service.KeywordSearch: for every keyword asked for, in order, the
\* objects its record lists
RECURSIVE KeywordSearch(_, _)
KeywordSearch(s, keywords) ==
    IF keywords = <<>> THEN <<>>
    ELSE LET k == Head(keywords)
             u == IF Has(s, k) THEN UnmarshalKeyword(Get(s, k))
                  ELSE [err |-> ErrKeyname, keyword |-> [Name |-> k, LensIdentifiers |-> <<>>]]
         IN (IF u.err = NoErr THEN ObjectsOf(s, u.keyword.LensIdentifiers) ELSE <<>>)
               \o KeywordSearch(s, Tail(keywords))

\* a nil *pbresp.Object
NilObject == [nil |-> TRUE]

\* make([]*pbresp.Object, n): a slice of n nil pointers
MakeObjs(n) == [j \in 1..n |-> NilObject]

\* the response record of a lens object
RespObject(v) ==
    [Name |-> v.Name, MimeType |-> v.MetaData.MimeType, Category |-> v.MetaData.Category]

\* Search's loop over the returned objects: each one is appended to objs
RECURSIVE AppendObjs(_, _)
AppendObjs(objs, objects) ==
    IF objects = <<>> THEN objs
    ELSE AppendObjs(Append(objs, RespObject(Head(objects))), Tail(objects))

\* APIServer.Search from the return of KeywordSearch: the list of the response
SearchObjs(objects) == AppendObjs(MakeObjs(Len(objects)), objects)

\* the keyword lists clients search for
SearchInputs == {<<k>> : k \in Keywords} \cup {<<"a", "b">>}

\* ------------------------------------------------------------------- state
VARIABLES
    store,    \* the search service's datastore: key -> stored value
    w,        \* per request worker: position and locals of its Index call
    nextId,   \* number of uuids generated so far
    calls,    \* number of Index requests still to come
    faults,   \* number of collaborator failures still to come
    env,      \* what the clients and the summarizer of this behaviour produce
    hist,     \* per name: the successful first-index responses so far
    corpus    \* the working corpus of the text analyzer: the texts it holds

vars == <<store, w, nextId, calls, faults, env, hist, corpus>>

NoID == NewV4(0)
NoKw == [Name |-> "", LensIdentifiers |-> <<>>]
NoRes == [err |-> NoErr, id |-> ""]
NoHist == [id |-> "", oks |-> 0]
NoGot == [err |-> NoErr, val |-> Text("")]

\* a worker between requests. name, reindex, meta, res, puts, fault, had and
\* prior describe its last request: meta what Magnify returned, res the
\* response (with meta.Summary as its keywords), puts the number of Puts it
\* made, fault whether a collaborator failed in it, had whether Magnify's Has
\* found the name, prior the summary of the object a reindex found. searched,
\* objects and objs describe its last Search request: the keywords asked for,
\* what KeywordSearch returned and the list of the response. keyname and got
\* describe its last lookup by key name: the key and what was returned.
\* ranked is the corpus its Summarize call worked on, keys the keys its Store
\* call has Put, in order, type the type of its Index request
Idle == [pc |-> "idle", name |-> "", reindex |-> FALSE, meta |-> NoMeta,
         id |-> NoID, idx |-> 0, kw |-> NoKw, puts |-> 0, fault |-> FALSE,
         had |-> FALSE, prior |-> <<>>, res |-> NoRes,
         searched |-> <<>>, objects |-> <<>>, objs |-> <<>>,
         keyname |-> "", got |-> NoGot, ranked |-> <<>>, keys |-> <<>>,
         type |-> ""]

Init ==
    /\ store = <<>>
    /\ w = [p \in Procs |-> Idle]
    /\ nextId = 0
    /\ corpus = <<>>
    /\ calls = MaxConcCalls
    /\ faults = MaxConcFaults
    /\ env = [names |-> {"n1", "n2"}, types |-> {"ipld"},
              metas |-> {<<"a", "b">>, <<"b", "c">>}, faults |-> MaxConcFaults]
    /\ hist = [n \in Names |-> NoHist]

\* one request at a time: the second worker never takes a request
InitSeq ==
    /\ store = <<>>
    /\ w = [p \in Procs |-> IF p = "p1" THEN Idle ELSE [Idle EXCEPT !.pc = "off"]]
    /\ nextId = 0
    /\ corpus = <<>>
    /\ calls = MaxCalls
    /\ faults = MaxFaults
    /\ env = [names |-> Names, types |-> ReqTypes, metas |-> RawMetas,
              faults |-> MaxFaults]
    /\ hist = [n \in Names |-> NoHist]

\* the datastore an earlier run left on disk after indexing n1 with summary
\* <<a, b>>
PersistedStore ==
    LET id == NewV4(1)
        meta == Classify(ContentType("n1"), <<"a", "b">>).meta
        s1 == Put(<<>>, "a", MarshalKeyword(NewKeyObj("a", id)))
        s2 == Put(s1, "b", MarshalKeyword(NewKeyObj("b", id)))
        s3 == Put(s2, "n1", NameValue(id))
    IN Put(s3, String(id), MarshalObject(id, "n1", meta))

\* concurrent requests on a datastore that holds n1
InitReindex ==
    /\ store = PersistedStore
    /\ w = [p \in Procs |-> Idle]
    /\ nextId = 1
    /\ corpus = <<>>
    /\ calls = MaxConcCalls
    /\ faults = MaxConcFaults
    /\ env = [names |-> {"n1", "n2"}, types |-> {"ipld"},
              metas |-> {<<"a", "b">>, <<"b", "c">>}, faults |-> MaxConcFaults]
    /\ hist = [n \in Names |-> IF n = "n1" THEN [id |-> String(NewV4(1)), oks |-> 1]
                                ELSE NoHist]

\* one request at a time over the wider range of contents
InitDispatch ==
    /\ store = <<>>
    /\ w = [p \in Procs |-> IF p = "p1" THEN Idle ELSE [Idle EXCEPT !.pc = "off"]]
    /\ nextId = 0
    /\ corpus = <<>>
    /\ calls = MaxDispatchCalls
    /\ faults = MaxFaults
    /\ env = [names |-> DispatchNames, types |-> {"ipld"},
              metas |-> {<<"a", "b">>, <<"a", "a">>}, faults |-> MaxFaults]
    /\ hist = [n \in DispatchNames |-> NoHist]

\* the datastores an Index of n1 with summary <<a, b>> leaves behind when a Put
\* of its Store fails: at the record of keyword b, or at the object record
PartialStores ==
    LET id == NewV4(1)
        s1 == Put(<<>>, "a", MarshalKeyword(NewKeyObj("a", id)))
        s2 == Put(s1, "b", MarshalKeyword(NewKeyObj("b", id)))
        s3 == Put(s2, "n1", NameValue(id))
    IN {s1, s3}

\* one request at a time on a datastore that an Index of n1 left half written
InitPartial ==
    /\ store \in PartialStores
    /\ w = [p \in Procs |-> IF p = "p1" THEN Idle ELSE [Idle EXCEPT !.pc = "off"]]
    /\ nextId = 1
    /\ corpus = <<>>
    /\ calls = MaxCalls
    /\ faults = MaxFaults
    /\ env = [names |-> {"n1", "n3"}, types |-> {"ipld"}, metas |-> {<<"b", "c">>},
              faults |-> MaxFaults]
    /\ hist = [n \in Names |-> NoHist]

\* keyword lists of a text that mentions the content hash n3, or the lens id
\* the response to the Index of n1 gave out
CollidingMetas == {<<"a", "n3">>, <<"a", String(NewV4(1))>>}

\* one request at a time on a datastore that holds n1, with texts that mention
\* a content hash or a lens id
InitCollide ==
    /\ store = PersistedStore
    /\ w = [p \in Procs |-> IF p = "p1" THEN Idle ELSE [Idle EXCEPT !.pc = "off"]]
    /\ nextId = 1
    /\ corpus = <<>>
    /\ calls = MaxCalls
    /\ faults = MaxFaults
    /\ env = [names |-> {"n1", "n2", "n3"}, types |-> {"ipld"},
              metas |-> CollidingMetas, faults |-> MaxFaults]
    /\ hist = [n \in Names |-> IF n = "n1" THEN [id |-> String(NewV4(1)), oks |-> 1]
                                ELSE NoHist]

\* whether the next collaborator call fails
FaultChoice == IF faults > 0 THEN {FALSE, TRUE} ELSE {FALSE}

\* the request of worker p returns: its locals die, its response stays
Return(p, e, idstr) ==
    [w EXCEPT ![p] = [@ EXCEPT !.pc = "idle", !.id = NoID, !.idx = 0, !.kw = NoKw,
                               !.res = [err |-> e, id |-> idstr]]]

\* mutant: the failed call is made again
FailRetry(p, e) ==
    /\ w' = [w EXCEPT ![p].fault = TRUE]
    /\ faults' = faults - 1

\* a collaborator call of worker p fails: the error is returned to the caller
Fail(p, e) ==
    /\ w' = [Return(p, e, "") EXCEPT ![p].fault = TRUE]
    /\ faults' = faults - 1

\* mutant: after the keywords Store goes on with the object record
NextKwObjectFirst(summary, i) == IF i > Len(summary) THEN "putObj" ELSE "kwHas"

\* where Store goes after the keyword before the i-th of the summary
NextKw(summary, i) == IF i > Len(summary) THEN "putName" ELSE "kwHas"

\* ----------------------------------------------------------------- actions
\* APIServer.Index up to the call of Magnify: a request arrives at worker p
IndexCall(p) ==
    /\ w[p].pc = "idle"
    /\ calls > 0
    /\ \E n \in env.names, r \in BOOLEAN, t \in env.types :
          w' = [w EXCEPT ![p] =
                   IF TypeGuard(t) = NoErr
                   THEN [Idle EXCEPT !.pc = "magnify", !.name = n, !.reindex = r,
                                     !.type = t]
                   ELSE [Idle EXCEPT !.name = n, !.reindex = r, !.type = t,
                                     !.res = [NoRes EXCEPT !.err = TypeGuard(t)]]]
    /\ calls' = calls - 1
    /\ UNCHANGED <<store, nextId, faults, env, corpus, hist>>

\* Magnify, first index: the Has on the content hash
MagnifyHas(p) ==
    /\ w[p].pc = "magnify"
    /\ ~w[p].reindex
    /\ UNCHANGED <<store, nextId, calls, env, corpus, hist>>
    /\ \E f \in FaultChoice :
          IF f THEN Fail(p, ErrStoreIO)
          ELSE LET has == Has(store, w[p].name)
                   e == MagnifyGuard(has)
               IN /\ w' = IF e # NoErr
                           THEN [Return(p, e, "") EXCEPT ![p].had = has]
                           ELSE [w EXCEPT ![p].pc = "extract", ![p].had = has]
                  /\ UNCHANGED faults

\* Magnify, reindex: the content hash must have been indexed
MagnifyReindex(p) ==
    /\ w[p].pc = "magnify"
    /\ w[p].reindex
    /\ UNCHANGED <<store, nextId, calls, env, corpus, hist>>
    /\ \E f \in FaultChoice :
          IF f THEN Fail(p, ErrStoreIO)
          ELSE LET has == Has(store, w[p].name)
                   e == ReindexGuard(has)
               IN /\ w' = IF e # NoErr
                           THEN [Return(p, e, "") EXCEPT ![p].had = has]
                           ELSE [w EXCEPT ![p].pc = "extract", ![p].had = has,
                                          ![p].prior = PriorSummary(store, w[p].name)]
                  /\ UNCHANGED faults

\* Magnify from ExtractContents to its return (fetch, detect, extract the
\* keywords) and, for a first index, Store up to its loop: a fresh uuid for the
\* lens object. None of it touches the store. Summarize and Clear are taken
\* here in one step, which leaves the analyzer's corpus as it was: empty.
MagnifyExtract(p) ==
    /\ w[p].pc = "extract"
    /\ UNCHANGED <<store, calls, env, corpus, hist>>
    /\ LET ct == ContentType(w[p].name)
           extracts == Classify(ct, <<>>).err = NoErr
                          /\ Classify(ct, <<>>).meta.Category # "document"
       IN \E f \in FaultChoice :
             IF f
             THEN /\ \E e \in {ErrFetch} \cup (IF extracts THEN {ErrExtract} ELSE {}) :
                        Fail(p, e)
                  /\ UNCHANGED nextId
             ELSE \E kws \in MetaChoices(ct, env.metas) :
                     LET c == Classify(ct, kws)
                     IN /\ UNCHANGED faults
                        /\ IF c.err # NoErr
                           THEN w' = Return(p, c.err, "") /\ UNCHANGED nextId
                           ELSE IF w[p].reindex
                           THEN /\ w' = [w EXCEPT ![p].pc = "getID", ![p].meta = c.meta]
                                /\ UNCHANGED nextId
                           ELSE /\ w' = [w EXCEPT ![p].pc = NextKw(c.meta.Summary, 1),
                                                  ![p].meta = c.meta,
                                                  ![p].id = NewV4(nextId + 1),
                                                  ![p].idx = 1]
                                /\ nextId' = nextId + 1

\* Magnify from ExtractContents to the dispatch on the content type, with the
\* calls of the text analyzer as steps of their own: fetch and detect; a pdf is
\* read, an image is classified
MagnifyFetch(p) ==
    /\ w[p].pc = "extract"
    /\ UNCHANGED <<store, nextId, calls, env, hist, corpus>>
    /\ LET ct == ContentType(w[p].name)
           c == Classify(ct, <<>>)
           extracts == c.err = NoErr /\ c.meta.Category # "document"
       IN \E f \in FaultChoice :
             IF f
             THEN \E e \in {ErrFetch} \cup (IF extracts THEN {ErrExtract} ELSE {}) :
                     Fail(p, e)
             ELSE /\ UNCHANGED faults
                  /\ IF c.err # NoErr THEN w' = Return(p, c.err, "")
                     ELSE IF c.meta.Category = "image"
                     THEN \E kws \in MetaChoices(ct, env.metas) :
                             w' = [w EXCEPT ![p].pc = "clear",
                                            ![p].meta = Classify(ct, kws).meta]
                     ELSE w' = [w EXCEPT ![p].pc = "populate"]

\* text.Analyzer.Summarize, first half: the text joins the working corpus
MagnifyPopulate(p) ==
    /\ w[p].pc = "populate"
    /\ corpus' = Populate(corpus, w[p].name)
    /\ w' = [w EXCEPT ![p].pc = "rank"]
    /\ UNCHANGED <<store, nextId, calls, faults, env, hist>>

\* text.Analyzer.Summarize, second half: the keywords of the corpus are
\* ranked and returned
MagnifyRank(p) ==
    /\ w[p].pc = "rank"
    /\ \E kws \in MetaChoices(ContentType(w[p].name), env.metas) :
          w' = [w EXCEPT ![p].pc = "clear", ![p].ranked = corpus,
                         ![p].meta = Classify(ContentType(w[p].name), kws).meta]
    /\ UNCHANGED <<store, nextId, calls, faults, env, hist, corpus>>

\* Magnify from text.Analyzer.Clear to its return and, for a first index,
\* Store up to its loop: a fresh uuid for the lens object
MagnifyClear(p) ==
    /\ w[p].pc = "clear"
    /\ corpus' = Clear(corpus)
    /\ UNCHANGED <<store, calls, faults, env, hist>>
    /\ IF w[p].reindex
       THEN w' = [w EXCEPT ![p].pc = "getID"] /\ UNCHANGED nextId
       ELSE /\ w' = [w EXCEPT ![p].pc = NextKw(w[p].meta.Summary, 1),
                              ![p].id = NewV4(nextId + 1),
                              ![p].idx = 1]
            /\ nextId' = nextId + 1

\* Store, one keyword: does the keyword have a record
StoreKwHas(p) ==
    /\ w[p].pc = "kwHas"
    /\ UNCHANGED <<store, nextId, calls, env, corpus, hist>>
    /\ \E f \in FaultChoice :
          IF f THEN Fail(p, ErrStoreIO)
          ELSE /\ w' = [w EXCEPT ![p].pc =
                           IF Has(store, w[p].meta.Summary[w[p].idx]) THEN "kwGet"
                           ELSE "kwPutNew"]
               /\ UNCHANGED faults

\* Store, one keyword: the keyword had no record, create it
StoreKwPutNew(p) ==
    /\ w[p].pc = "kwPutNew"
    /\ UNCHANGED <<nextId, calls, env, corpus, hist>>
    /\ \E f \in FaultChoice :
          IF f THEN Fail(p, ErrStoreIO) /\ UNCHANGED store
          ELSE LET v == w[p].meta.Summary[w[p].idx]
               IN /\ store' = Put(store, v, MarshalKeyword(NewKeyObj(v, w[p].id)))
                  /\ w' = [w EXCEPT ![p].idx = @ + 1, ![p].puts = @ + 1,
                                     ![p].keys = Append(@, v),
                                     ![p].pc = NextKw(w[p].meta.Summary, w[p].idx + 1)]
                  /\ UNCHANGED faults

\* Store, one keyword: the keyword has a record, read it and add the id
StoreKwGet(p) ==
    /\ w[p].pc = "kwGet"
    /\ UNCHANGED <<store, nextId, calls, env, corpus, hist>>
    /\ \E f \in FaultChoice :
          IF f THEN Fail(p, ErrStoreIO)
          ELSE LET u == UnmarshalKeyword(Get(store, w[p].meta.Summary[w[p].idx]))
               IN /\ w' = IF u.err # NoErr THEN Return(p, u.err, "")
                           ELSE IF Detected(u.keyword.LensIdentifiers, w[p].id)
                           THEN [w EXCEPT ![p].idx = @ + 1, ![p].pc = NextKw(w[p].meta.Summary, w[p].idx + 1)]
                           ELSE [w EXCEPT ![p].pc = "kwPut",
                                          ![p].kw = [u.keyword EXCEPT !.LensIdentifiers =
                                                        AppendID(@, w[p].id)]]
                  /\ UNCHANGED faults

\* Store, one keyword: put the updated keyword object
StoreKwPut(p) ==
    /\ w[p].pc = "kwPut"
    /\ UNCHANGED <<nextId, calls, env, corpus, hist>>
    /\ \E f \in FaultChoice :
          IF f THEN Fail(p, ErrStoreIO) /\ UNCHANGED store
          ELSE /\ store' = Put(store, w[p].meta.Summary[w[p].idx], MarshalKeyword(w[p].kw))
               /\ w' = [w EXCEPT ![p].idx = @ + 1, ![p].puts = @ + 1, ![p].kw = NoKw,
                                  ![p].keys = Append(@, w[p].meta.Summary[w[p].idx]),
                                  ![p].pc = NextKw(w[p].meta.Summary, w[p].idx + 1)]
               /\ UNCHANGED faults

\* Store: the name (content hash) record
StorePutName(p) ==
    /\ w[p].pc = "putName"
    /\ UNCHANGED <<nextId, calls, env, corpus, hist>>
    /\ \E f \in FaultChoice :
          IF f THEN Fail(p, ErrStoreIO) /\ UNCHANGED store
          ELSE /\ store' = Put(store, w[p].name, NameValue(w[p].id))
               /\ w' = [w EXCEPT ![p].puts = @ + 1, ![p].pc = "putObj",
                                  ![p].keys = Append(@, w[p].name)]
               /\ UNCHANGED faults

\* Store: the lens object under its uuid
StorePutObject(p) ==
    /\ w[p].pc = "putObj"
    /\ UNCHANGED <<nextId, calls, env, corpus, hist>>
    /\ \E f \in FaultChoice :
          IF f THEN Fail(p, ErrStoreIO) /\ UNCHANGED store
          ELSE /\ store' = Put(store, String(w[p].id),
                               MarshalObject(w[p].id, w[p].name, w[p].meta))
               /\ w' = [w EXCEPT ![p].puts = @ + 1, ![p].pc = "dagPut",
                                  ![p].keys = Append(@, String(w[p].id))]
               /\ UNCHANGED faults

\* Store: the object goes to ipfs, Store returns, Index answers
StoreDagPut(p) ==
    /\ w[p].pc = "dagPut"
    /\ UNCHANGED <<store, nextId, calls, env, corpus>>
    /\ \E f \in FaultChoice :
          IF f THEN Fail(p, ErrDagPut) /\ UNCHANGED hist
          ELSE /\ w' = Return(p, NoErr, String(w[p].id))
               /\ hist' = [hist EXCEPT ![w[p].name] =
                              [id |-> IF @.oks = 0 THEN String(w[p].id) ELSE @.id,
                               oks |-> @.oks + 1]]
               /\ UNCHANGED faults

\* Service.Get: the value stored under a key name; the result is [err, val]
ServiceGet(s, keyname) ==
    IF ~Has(s, keyname) THEN [err |-> ErrKeyname, val |-> Text("")]
    ELSE [err |-> NoErr, val |-> Get(s, keyname)]

\* Index, reindex: resolve the object's id from its name record. A resolved id
\* would lead on to Service.Update (pc "update"); no stored value decodes, so
\* no request gets there.
IndexGetID(p) ==
    /\ w[p].pc = "getID"
    /\ UNCHANGED <<store, nextId, calls, env, corpus, hist>>
    /\ \E f \in FaultChoice :
          IF f THEN Fail(p, ErrFindID)
          ELSE LET b == ServiceGet(store, w[p].name)
                   u == FromBytes(b.val)
               IN /\ w' = IF b.err # NoErr THEN Return(p, ErrFindID, "")
                           ELSE IF u.err # NoErr THEN Return(p, ErrInvalidUUID, "")
                           ELSE [w EXCEPT ![p].pc = "update", ![p].id = u.id]
                  /\ UNCHANGED faults

\* APIServer.Search: a search request arrives at worker p and is answered
Search(p) ==
    /\ w[p].pc = "idle"
    /\ calls > 0
    /\ calls' = calls - 1
    /\ UNCHANGED <<store, nextId, env, corpus, hist>>
    /\ \E keywords \in SearchInputs, f \in FaultChoice :
          IF f
          THEN /\ w' = [w EXCEPT ![p] = [Idle EXCEPT !.searched = keywords,
                                                      !.fault = TRUE,
                                                      !.res = [NoRes EXCEPT !.err = ErrStoreIO]]]
               /\ faults' = faults - 1
          ELSE LET objects == KeywordSearch(store, keywords)
               IN /\ w' = [w EXCEPT ![p] = [Idle EXCEPT !.searched = keywords,
                                                         !.objects = objects,
                                                         !.objs = SearchObjs(objects)]]
                  /\ UNCHANGED faults

\* Service.SearchByKeyName, called for a client at worker p
Lookup(p) ==
    /\ w[p].pc = "idle"
    /\ calls > 0
    /\ calls' = calls - 1
    /\ UNCHANGED <<store, nextId, env, corpus, hist>>
    /\ \E keyname \in env.names, f \in FaultChoice :
          IF f
          THEN /\ w' = [w EXCEPT ![p] = [Idle EXCEPT !.keyname = keyname,
                                                      !.fault = TRUE,
                                                      !.got = [NoGot EXCEPT !.err = ErrStoreIO]]]
               /\ faults' = faults - 1
          ELSE /\ w' = [w EXCEPT ![p] = [Idle EXCEPT !.keyname = keyname,
                                                      !.got = ServiceGet(store, keyname)]]
               /\ UNCHANGED faults

Next ==
    \E p \in Procs :
        \/ IndexCall(p)
        \/ MagnifyHas(p)
        \/ MagnifyReindex(p)
        \/ MagnifyExtract(p)
        \/ StoreKwHas(p)
        \/ StoreKwPutNew(p)
        \/ StoreKwGet(p)
        \/ StoreKwPut(p)
        \/ StorePutName(p)
        \/ StorePutObject(p)
        \/ StoreDagPut(p)
        \/ IndexGetID(p)

\* index requests with the calls of the text analyzer as steps of their own
NextAnalyzer ==
    \E p \in Procs :
        \/ IndexCall(p)
        \/ MagnifyHas(p)
        \/ MagnifyReindex(p)
        \/ MagnifyFetch(p)
        \/ MagnifyPopulate(p)
        \/ MagnifyRank(p)
        \/ MagnifyClear(p)
        \/ StoreKwHas(p)
        \/ StoreKwPutNew(p)
        \/ StoreKwGet(p)
        \/ StoreKwPut(p)
        \/ StorePutName(p)
        \/ StorePutObject(p)
        \/ StoreDagPut(p)
        \/ IndexGetID(p)

\* index, search and lookup requests
NextSearch ==
    \/ Next
    \/ \E p \in Procs : Search(p)
    \/ \E p \in Procs : Lookup(p)

\* concurrent requests
Spec == Init /\ [][Next]_vars

\* one request at a time
SpecSeq == InitSeq /\ [][Next]_vars

\* concurrent requests, n1 indexed by an earlier run
SpecReindex == InitReindex /\ [][Next]_vars

\* one request at a time over the wider range of contents
SpecDispatch == InitDispatch /\ [][Next]_vars

\* one request at a time on a datastore that holds n1, with texts that mention
\* a content hash or a lens id
SpecCollide == InitCollide /\ [][Next]_vars

\* concurrent requests sharing the one text analyzer
SpecAnalyzer == Init /\ [][NextAnalyzer]_vars

\* one request at a time sharing the one text analyzer
SpecAnalyzerSeq == InitSeq /\ [][NextAnalyzer]_vars

\* one request at a time, after an Index of n1 that failed in Store
SpecPartial == InitPartial /\ [][Next]_vars

\* index, search and lookup requests, one at a time
SpecSearch == InitSeq /\ [][NextSearch]_vars

\* ------------------------------------------------------------ observations
Range(q) == {q[j] : j \in 1..Len(q)}
IsKeywordDoc(v) == v.json /\ "LensIdentifiers" \in DOMAIN v.doc
IsObjectDoc(v) == v.json /\ "LensID" \in DOMAIN v.doc
IsNameRecord(v) == ~v.json
\* the stored lens objects
Objects == {store[k].doc : k \in {x \in DOMAIN store : IsObjectDoc(store[x])}}
\* the identifiers listed in the record of keyword k
KwIDs(k) == IF Has(store, k) /\ IsKeywordDoc(store[k]) THEN store[k].doc.LensIdentifiers
            ELSE <<>>
\* the content behind name n is of a type Magnify handles
Supported(n) == Classify(ContentType(n), <<>>).err = NoErr
\* the content behind name n is detected as application/octet-stream
OctetStream(n) == Join(ContentType(n)) = "application/octet-stream"
\* worker p has answered a well-typed request and taken no other since
Finished(p) == w[p].pc = "idle" /\ w[p].name # "" /\ w[p].res.err # ErrInvalidType
\* no collaborator has failed so far
NoFaultYet == faults = env.faults
AllIdle == \A p \in Procs : w[p].pc \in {"idle", "off"}

\* ------------------------------------------------------------------ claims
\* C1: with one request at a time and working collaborators, a first-index
\* request for a name that has no name record (and supported content) succeeds;
\* a first-index request for a name that has one fails with the already-indexed
\* error and makes no Put; so no name is indexed successfully twice, and the
\* name record of an indexed name stays in the store.
C1_IndexOnce ==
    /\ \A n \in Names : hist[n].oks <= 1 /\ (hist[n].oks = 1 => Has(store, n))
    /\ \A p \in Procs :
          (Finished(p) /\ ~w[p].reindex /\ ~w[p].fault) =>
              IF w[p].had
              THEN w[p].res.err = ErrAlreadyIndexed /\ w[p].puts = 0
              ELSE Supported(w[p].name) => w[p].res.err = NoErr

\* C1 witness: a second first-index request for an indexed name was rejected
C1_Witness ==
    \E p \in Procs :
        /\ Finished(p) /\ ~w[p].reindex /\ ~w[p].fault
        /\ hist[w[p].name].oks = 1
        /\ w[p].res.err = ErrAlreadyIndexed

\* C2: I1 under concurrent first-index requests: no two stored objects carry
\* the same name, and the name record of a stored object holds that object's id.
C2_OneObjectPerName ==
    \A o1 \in Objects :
        /\ \A o2 \in Objects : o1.Name = o2.Name => o1.LensID = o2.LensID
        /\ Has(store, o1.Name) /\ store[o1.Name] = Text(o1.LensID)

\* C3: I2 after concurrent requests for different names: once every request
\* has returned and no collaborator has failed, every keyword of a stored
\* object's summary has a record that lists the object's id.
C3_KeywordsListObject ==
    (/\ AllIdle
     /\ NoFaultYet
     /\ \A p, q \in Procs : (p # q /\ Finished(p) /\ Finished(q)) => w[p].name # w[q].name
     /\ \A p \in Procs : Finished(p) => w[p].res.err = NoErr)
    => \A o \in Objects : \A k \in Range(o.MetaData.Summary) : o.LensID \in Range(KwIDs(k))

\* C4: I4: no keyword record lists the same id twice.
C4_NoDuplicateIDs ==
    \A k \in DOMAIN store :
        IsKeywordDoc(store[k]) =>
            \A i, j \in 1..Len(KwIDs(k)) : KwIDs(k)[i] = KwIDs(k)[j] => i = j

\* C4 witness: a keyword record that lists two objects, after an update
C4_Witness ==
    \E k \in DOMAIN store : IsKeywordDoc(store[k]) /\ Len(KwIDs(k)) = 2

\* C5: with one request at a time and working collaborators, between requests
\* every keyword record lists exactly the ids of the stored objects whose
\* summary has the keyword, each once, whatever the order of the requests.
C5_KeywordRecordExact ==
    (AllIdle /\ NoFaultYet) =>
        \A k \in Keywords :
            Has(store, k) =>
                /\ Range(KwIDs(k)) = {o.LensID : o \in {x \in Objects :
                                                          k \in Range(x.MetaData.Summary)}}
                /\ Cardinality(Range(KwIDs(k))) = Len(KwIDs(k))

\* C5 witness: two objects of different names share keyword b, whose record
\* lists exactly their two ids
C5_Witness ==
    /\ AllIdle /\ NoFaultYet
    /\ \E o1, o2 \in Objects :
          /\ o1.Name # o2.Name
          /\ "b" \in Range(o1.MetaData.Summary) /\ "b" \in Range(o2.MetaData.Summary)
          /\ Range(KwIDs("b")) = {o1.LensID, o2.LensID}
          /\ Len(KwIDs("b")) = 2

\* a reindex of a name indexed once before, with working collaborators and
\* supported content, has returned at worker p
ReindexReturned(p) ==
    /\ Finished(p) /\ w[p].reindex /\ w[p].had /\ ~w[p].fault
    /\ Supported(w[p].name)
    /\ hist[w[p].name].oks = 1

C7_OneSummaryWins ==
    \A p, q \in Procs :
        (/\ p # q /\ NoFaultYet
         /\ ReindexReturned(p) /\ ReindexReturned(q)
         /\ w[p].name = w[q].name)
        => \E r \in {p, q} :
              \A k \in Keywords :
                  (hist[w[p].name].id \in Range(KwIDs(k)))
                      <=> (k \in Range(w[r].meta.Summary))

C9_ReindexAnswersFirstID ==
    \A p \in Procs :
        ReindexReturned(p) =>
            w[p].res.err = NoErr /\ w[p].res.id = hist[w[p].name].id

\* C10: a step of Magnify never changes the store and is made by a request
\* that has made no Put; a request for application/octet-stream content that
\* no collaborator failure cuts short ends in Magnify with the
\* unsupported-content-type error.
C10_MagnifyWritesNothing ==
    [][\A p \in Procs :
          (w[p].pc \in {"magnify", "extract"} /\ w'[p] # w[p]) =>
              /\ store' = store
              /\ w'[p].puts = 0
              /\ (w[p].pc = "extract" /\ OctetStream(w[p].name) /\ ~w'[p].fault) =>
                     (w'[p].pc = "idle" /\ w'[p].res.err = ErrUnsupported)]_vars

\* C10 witness: a request for unsupported content was refused, with objects
\* in the store and no Put made
C10_Witness ==
    \E p \in Procs :
        /\ Finished(p) /\ OctetStream(w[p].name)
        /\ w[p].res.err = ErrUnsupported /\ w[p].puts = 0
        /\ Objects # {}

\* worker p has answered a search request and taken no other request since
Searched(p) == w[p].pc = "idle" /\ w[p].searched # <<>> /\ ~w[p].fault

\* C11: the list of a Search response has one entry per object KeywordSearch
\* returned, in the same order, each the object's name, mime type and
\* category, and no other entry; a search for the one keyword of the only
\* indexed object is answered with a list of length one.
C11_SearchExact ==
    \A p \in Procs :
        Searched(p) =>
            /\ Len(w[p].objs) = Len(w[p].objects)
            /\ \A j \in 1..Len(w[p].objs) :
                  /\ w[p].objs[j] # NilObject
                  /\ j <= Len(w[p].objects) => w[p].objs[j] = RespObject(w[p].objects[j])
            /\ (/\ Cardinality(Objects) = 1
                /\ \E o \in Objects : o.MetaData.Summary = w[p].searched)
               => Len(w[p].objs) = 1

\* the key of every identifier a keyword record lists holds an object record
NoDanglingID ==
    \A k \in DOMAIN store :
        IsKeywordDoc(store[k]) =>
            \A j \in 1..Len(KwIDs(k)) :
                Has(store, KwIDs(k)[j]) /\ IsObjectDoc(store[KwIDs(k)[j]])

\* I1, I2 and I4 over the whole store
Consistent ==
    /\ \A o1 \in Objects :
          /\ \A o2 \in Objects : o1.Name = o2.Name => o1.LensID = o2.LensID
          /\ Has(store, o1.Name) /\ store[o1.Name] = Text(o1.LensID)
          /\ \A k \in Range(o1.MetaData.Summary) : o1.LensID \in Range(KwIDs(k))
    /\ \A k \in DOMAIN store :
          IsKeywordDoc(store[k]) => Cardinality(Range(KwIDs(k))) = Len(KwIDs(k))

LookupStep(p) ==
    /\ w[p].pc = "idle" /\ w'[p].pc = "idle"
    /\ calls' = calls - 1
    /\ w'[p].keyname # "" /\ ~w'[p].fault

\* C13: a lookup by identifier leaves the store as it was, fails with the
\* not-found error exactly when the store has no record under the identifier,
\* and for an identifier indexed with success returns the object whose name
\* is the identifier.
C13_LookupObject ==
    [][\A p \in Procs :
          LookupStep(p) =>
              /\ store' = store
              /\ (w'[p].got.err = ErrKeyname) <=> ~Has(store, w'[p].keyname)
              /\ hist[w'[p].keyname].oks >= 1 =>
                     /\ w'[p].got.err = NoErr
                     /\ IsObjectDoc(w'[p].got.val)
                     /\ w'[p].got.val.doc.Name = w'[p].keyname]_vars

\* no request is inside Magnify
NoMagnify ==
    \A p \in Procs : w[p].pc \notin {"magnify", "extract", "populate", "rank", "clear"}

\* C14: with concurrent requests sharing the text analyzer, the corpus a
\* Summarize call works on holds the text of its own call and nothing else,
\* and the corpus is empty whenever no request is inside Magnify.
C14_NoCorpusLeak ==
    /\ \A p \in Procs : w[p].ranked \in {<<>>, <<w[p].name>>}
    /\ NoMagnify => corpus = <<>>

\* the part of the content type of name n before the slash
MajorType(n) == ContentType(n)[1]
\* the content behind name n is detected as application/pdf
IsPdf(n) == Join(ContentType(n)) = "application/pdf"

\* C15: the step of Magnify that classifies the content (no collaborator
\* failing) goes by the detected type alone: application/pdf gives category
\* pdf, text/* gives document, image/* gives image with a summary of one
\* keyword, every other type ends the request with the unsupported-content-type
\* error and no meta data; a request that goes on has one of the three
\* categories.
C15_DispatchTotal ==
    [][\A p \in Procs :
          (w[p].pc = "extract" /\ w'[p] # w[p] /\ ~w'[p].fault) =>
              LET n == w[p].name
                  ok == w'[p].pc # "idle"
                  m == w'[p].meta
              IN /\ IsPdf(n) => (ok /\ m.Category = "pdf")
                 /\ MajorType(n) = "text" => (ok /\ m.Category = "document")
                 /\ MajorType(n) = "image" =>
                        (ok /\ m.Category = "image" /\ Len(m.Summary) = 1)
                 /\ (~IsPdf(n) /\ MajorType(n) \notin {"text", "image"}) =>
                        (~ok /\ w'[p].res.err = ErrUnsupported /\ m = NoMeta)
                 /\ ok => m.Category \in {"pdf", "document", "image"}]_vars

\* C15 witness: a jpeg image was indexed with a summary of one keyword, after
\* a document
C15_Witness ==
    \E p \in Procs :
        /\ Finished(p) /\ w[p].name = "n6" /\ w[p].res.err = NoErr
        /\ w[p].meta.Category = "image" /\ Len(w[p].meta.Summary) = 1
        /\ \E o \in Objects : o.MetaData.Category = "document"

\* the positions of a request inside Store
StorePCs == {"kwHas", "kwPutNew", "kwGet", "kwPut", "putName", "putObj", "dagPut"}

\* C16: a store operation of Store that fails ends the request with that
\* error and writes nothing; the request makes no step after it; and no
\* request Puts the same key twice.
C16_StopAtFirstFailure ==
    [][\A p \in Procs :
          /\ \A i, j \in 1..Len(w'[p].keys) : w'[p].keys[i] = w'[p].keys[j] => i = j
          /\ (w[p].pc \in StorePCs /\ ~w[p].fault /\ w'[p].fault) =>
                 /\ store' = store
                 /\ w'[p].pc = "idle"
                 /\ w'[p].res.err \in {ErrStoreIO, ErrDagPut}
                 /\ w'[p].keys = w[p].keys
          /\ (w[p].fault /\ w'[p].fault) => (w'[p] = w[p] /\ store' = store)]_vars

\* C16 witness: a request whose Store failed after two Puts has returned the
\* store's error
C16_Witness ==
    \E p \in Procs :
        /\ Finished(p) /\ w[p].fault /\ w[p].res.err = ErrStoreIO
        /\ Len(w[p].keys) = 2 /\ w[p].puts = 2
        /\ \A k \in Range(w[p].keys) : Has(store, k)

\* every stored object has a name record that holds its id
ObjectHasName ==
    \A o \in Objects : Has(store, o.Name) /\ store[o.Name] = Text(o.LensID)

\* the summary of the Store call that wrote the name record of n: that of the
\* stored object, or of the request that Put the name record and has not been
\* followed by another at its worker
SummariesOf(n) ==
    {o.MetaData.Summary : o \in {x \in Objects : x.Name = n}}
        \cup {w[p].meta.Summary : p \in {q \in Procs : w[q].name = n /\ n \in Range(w[q].keys)}}

\* every keyword of the summary behind a name record lists the id it holds
NameHasKeywords ==
    \A n \in Names :
        (Has(store, n) /\ IsNameRecord(store[n])) =>
            \A summary \in SummariesOf(n) :
                \A k \in Range(summary) : store[n].text \in Range(KwIDs(k))

\* C17: with one request at a time and store failures, in every state a
\* stored object has the name record of its name, holding its id, and every
\* keyword of the summary behind a name record lists the id the name record
\* holds; no step takes an id out of a keyword record or removes a name record.
C17_WriteOrder ==
    [][/\ ObjectHasName'
       /\ NameHasKeywords'
       /\ \A k \in Keywords : Range(KwIDs(k)) \subseteq Range(KwIDs(k)')
       /\ \A n \in Names :
             (Has(store, n) /\ IsNameRecord(store[n])) =>
                 (Has(store', n) /\ store'[n] = store[n])]_vars

\* C17 witness: the Put of the object record failed: the name record is
\* there without its object, and both keywords of the summary list its id
C17_Witness ==
    \E p \in Procs :
        /\ Finished(p) /\ w[p].fault /\ Len(w[p].keys) = 3
        /\ Len(w[p].meta.Summary) = 2
        /\ Has(store, w[p].name) /\ ~Has(store, store[w[p].name].text)
        /\ \A k \in Range(w[p].meta.Summary) : store[w[p].name].text \in Range(KwIDs(k))

\* C18: the record families keep apart: no step turns the record under a key
\* from one family into another, and a first-index request is refused as
\* already indexed only when the record under its name is a name record.
C18_FamiliesApart ==
    [][/\ \A k \in DOMAIN store :
             /\ IsKeywordDoc(store[k]) => IsKeywordDoc(store'[k])
             /\ IsObjectDoc(store[k]) => IsObjectDoc(store'[k])
             /\ IsNameRecord(store[k]) => IsNameRecord(store'[k])
       /\ \A p \in Procs :
             (w[p].pc = "magnify" /\ w'[p].res.err = ErrAlreadyIndexed) =>
                 IsNameRecord(store[w[p].name])]_vars

\* C19: an Index request of a type other than ipld is answered in its first
\* step with the invalid-data-type error: the worker does not enter Magnify,
\* nothing is fetched or classified, no uuid is drawn, and the store, the
\* analyzer's corpus and the collaborators are left alone.
C19_TypeRejected ==
    [][\A p \in Procs :
          (w'[p].type \in ReqTypes \ {"ipld"} /\ w'[p] # w[p]) =>
              /\ w[p].pc = "idle" /\ w'[p].pc = "idle"
              /\ w'[p].res.err = ErrInvalidType
              /\ w'[p].meta = NoMeta /\ w'[p].puts = 0 /\ w'[p].keys = <<>>
              /\ ~w'[p].had /\ ~w'[p].fault
              /\ store' = store /\ corpus' = corpus
              /\ nextId' = nextId /\ faults' = faults]_vars

\* C19 witness: a request of type file was refused, with an object in the
\* store
C19_Witness ==
    \E p \in Procs :
        /\ w[p].pc = "idle" /\ w[p].type = "file"
        /\ w[p].res.err = ErrInvalidType
        /\ Objects # {}

====
